---- MODULE Spec2Model ----
(***************************************************************************)
(* bbf burnin: the burn-in verification engine of src/src/bbf_burnin.cpp.  *)
(* One sequential process (burnin -> burnin_loop -> burn_block ->          *)
(* write_read_compare) against a block device whose reads and writes can   *)
(* fail, plus the asynchronous arrival of an exit signal.                  *)
(***************************************************************************)
EXTENDS Integers, Sequences, FiniteSets, TLC

VARIABLES
  pc,          \* position of the process in burnin / burnin_loop / burn_block
  opts,        \* Options: stepping, retries, max_errors, start_block, end_block, captcha_ok
  blkdev,      \* BlkDev geometry: logical_block_count, block_stepping
  dev,         \* on-device contents, one value per logical block
  infile,      \* the bad-block input file: the list of addresses it holds
  outfile,     \* the bad-block output file: [written, list]
  err,         \* AppError returned by burnin(opts)
  badblocks,   \* std::vector<uint64_t> badblocks
  start_block, \* burnin(): start_block after rounding
  end_block,   \* burnin(): end_block after rounding and clamping
  stepping_,   \* burnin(): stepping (the requested batch size), burnin_loop's stepping_
  block,       \* burnin_loop: cursor
  stepping,    \* burnin_loop: trimmed batch size of the current iteration
  rv,          \* burnin_loop / burn_block / write_read_compare: status
  i,           \* retry loop counter of the loop in progress
  pat,         \* burn_block: index of the pattern under test (0..3)
  buf,         \* the r/w buffer buf_, one value per block of the batch
  signaled,    \* signals::signaled_to_exit(): an exit signal is pending
  plan,        \* environment: which device faults may occur ("any" / "scenarioB")
  faults,      \* environment: number of faulty device responses so far
  snaps,       \* progress snapshots (Info::print) emitted since the current
               \* iteration began; before the loop, since burnin_loop began
  lastio,      \* history: the most recent device call [op, block, count, rv]
  last,        \* history: facts about the most recent burn_block invocation
  obs,         \* history: what the loop saw when it observed the exit signal
  hist         \* history: the list as loaded, and every batch burn_block
               \* returned for: [block, n, rv], in order

vars == << pc, opts, blkdev, dev, infile, outfile, err, badblocks, start_block,
           end_block, stepping_, block, stepping, rv, i, pat, buf, signaled,
           plan, faults, snaps, lastio, last, obs, hist >>

----------------------------------------------------------------------------
(* Bounds of the model *)

MaxBlocks == 3
MaxStepping == 2
MaxRetries == 1
MaxErrors == 2
MaxLoaded == 1
MaxFaults == 2

(* errno values used by the code *)
EIO == 5
EINVAL == 22

(* contents of memory that was never written (new char[buflen]) *)
Junk == 99

(* patterns[0..3] of burnin_loop *)
Patterns == << 0, 85, 170, 255 >>

Min(a, b) == IF a < b THEN a ELSE b

(* contents of block b before the run *)
OrigData(b) == b + 1

(* a buffer of n blocks filled with value v (memset / vector::resize(n,v)) *)
Fill(n, v) == [k \in 1..n |-> v]

----------------------------------------------------------------------------
(* Pure functions of the code *)

(* trim_stepping without the truncation at the device end *)
trim_stepping_untrimmed(block_count, block_, stepping_req) ==
  IF block_ > block_count THEN 0 ELSE stepping_req

(* trim_stepping that never hands out more than one block *)
trim_stepping_one(block_count, block_, stepping_req) ==
  IF block_ > block_count THEN 0 ELSE Min(block_count - block_, 1)

trim_stepping(block_count, block_, stepping_req) ==
  IF block_ > block_count
    THEN 0
    ELSE Min(block_count - block_, stepping_req)

round_down(n, s) == n - (n % s)

round_up(n, s) == ((n + s - 1) \div s) * s

(* burnin(): stepping = opts.stepping == 0 ? blkdev.block_stepping() : opts.stepping *)
EffectiveStepping(o, d) ==
  IF o.stepping = 0 THEN d.block_stepping ELSE o.stepping

(* burnin(): start_block = round_down(opts.start_block, stepping) *)
ComputeStart(o, d) == round_down(o.start_block, EffectiveStepping(o, d))

(* the end block not clamped to the device after rounding up *)
ComputeEndUnclamped(o, d) ==
  round_up(Min(o.end_block, d.logical_block_count), EffectiveStepping(o, d))

(* burnin(): end_block = min(round_up(min(opts.end_block,count),stepping),count) *)
ComputeEnd(o, d) ==
  Min(round_up(Min(o.end_block, d.logical_block_count), EffectiveStepping(o, d)),
      d.logical_block_count)

(* a retry loop that makes one attempt less *)
RetryGuardShort(i_, retries_, rv_) == (i_ < retries_) /\ (rv_ < 0)

(* the guard of every retry loop: (i <= retries) && (rv < 0) *)
RetryGuard(i_, retries_, rv_) == (i_ <= retries_) /\ (rv_ < 0)

(* burnin_loop line 158: the block count handed to burn_block *)
BurnCount(requested, trimmed) == requested

(* PushBatch that puts the batch in front of the list *)
PushBatchFront(bb, block_, n) == [k \in 1..n |-> block_ + (k - 1)] \o bb

(* burnin_loop lines 169-170: for(i < stepping) badblocks.push_back(block+i),
   block being the cursor at that point *)
PushBatch(bb, block_, n) == bb \o [k \in 1..n |-> block_ + (k - 1)]

(* Classify that lets the loop go on after -EINVAL *)
ClassifyFatalAsGood(rv_) ==
  IF rv_ >= 0 \/ rv_ = -EINVAL THEN "good" ELSE "bad"

(* Classify without the -EINVAL exit *)
ClassifyNoFatal(rv_) == IF rv_ >= 0 THEN "good" ELSE "bad"

(* burnin_loop lines 160-163: what the loop does with burn_block's status *)
Classify(rv_) ==
  IF rv_ >= 0 THEN "good" ELSE IF rv_ = -EINVAL THEN "fatal" ELSE "bad"

(* the limit check left out *)
LimitNeverExceeded(bb, max_errors_) == FALSE

(* the limit check off by one *)
LimitExceededLate(bb, max_errors_) == Len(bb) > max_errors_ + 1

(* burnin_loop line 172: badblocks.size() > max_errors_ *)
LimitExceeded(bb, max_errors_) == Len(bb) > max_errors_

(* the restore loop entered with the status of the last pattern *)
RestoreEntryKept(ret) == ret

(* burn_block line 106: rv = -1 before the restore loop, whatever the pattern
   cycles returned *)
RestoreEntry(ret) == -1

(* write_read_compare lines 77-81: memcmp(write_buf,buf_,buflen_) *)
Compare(write_buf, buf_) == IF write_buf # buf_ THEN -EIO ELSE 0

(* the captcha comparison left out *)
CaptchaUnchecked(o) == TRUE

(* burnin(const Options&) line 286: opts.captcha != captcha, as the outcome of
   the comparison the caller's token leads to *)
CaptchaMatches(o) == o.captcha_ok

(* the status of BadBlockFile::write dropped *)
AfterSaveIgnored(err_, ok) == err_

(* burnin(const Options&) lines 306-307: a failed save replaces a result that
   succeeded and no other *)
AfterSave(err_, ok) ==
  IF ~ok /\ err_.kind = "success"
    THEN [kind |-> "writing_badblocks_file", code |-> 1]
    ELSE err_

(* every status reported as success *)
RunResultSuccess(rv_) == [kind |-> "success", code |-> 0]

(* burnin() lines 244-247 *)
RunResult(rv_) == IF rv_ < 0 THEN [kind |-> "runtime", code |-> -rv_]
                             ELSE [kind |-> "success", code |-> 0]

----------------------------------------------------------------------------
(* The block device *)

(* blkdev.read(block,count,buf,len) that succeeded: blocks inside the device
   are copied to the buffer, the rest of the buffer is left as it was *)
DevRead(d, block_count, block_, n, b) ==
  [k \in 1..Len(b) |->
     IF k <= n /\ block_ + (k - 1) < block_count THEN d[block_ + (k - 1)] ELSE b[k]]

(* a read that reports success but returns wrong data for the device's blocks *)
DevReadGarbled(d, block_count, block_, n, b) ==
  [k \in 1..Len(b) |->
     IF k <= n /\ block_ + (k - 1) < block_count THEN Junk ELSE b[k]]

(* blkdev.write(block,count,buf,len) that succeeded *)
DevWrite(d, block_, n, data) ==
  [x \in DOMAIN d |->
     IF block_ <= x /\ x < block_ + n THEN data[x - block_ + 1] ELSE d[x]]

(* contents of the blocks [block_, block_+n) that exist on the device *)
Contents(d, block_, n) ==
  [k \in 1..Min(n, Cardinality({x \in DOMAIN d : x >= block_})) |-> d[block_ + (k - 1)]]

(* the statuses the device may answer a call with *)
Responses(site, block_) ==
  IF plan = "scenarioB"
    THEN IF site = "restore" /\ block_ = 300 THEN {-EIO} ELSE {0}
    ELSE IF plan = "hostile" \/ faults < MaxFaults THEN {0, -EIO, -EINVAL} ELSE {0}

(* whether a successful read may return wrong data *)
Garbles ==
  IF plan = "hostile" \/ (plan = "any" /\ faults < MaxFaults)
    THEN {FALSE, TRUE} ELSE {FALSE}

----------------------------------------------------------------------------
(* Initial states *)

(* values an int that was never assigned may hold *)
UninitInts == {-EINVAL, -EIO, -1, 0}

(* values a byte of a never-written buffer may hold *)
UninitBytes == {0, Junk}

NoIO == [op |-> "none", block |-> 0, count |-> 0, rv |-> 0]

NoBatch == [valid |-> FALSE, block |-> 0, n |-> 0, bbpre |-> << >>, pre |-> << >>,
            pres_ok |-> FALSE, captured |-> << >>, wrc |-> -1, clean |-> TRUE,
            restored |-> << >>, restores |-> 0, bad |-> FALSE]

NoObs == [seen |-> FALSE, block |-> 0, badblocks |-> << >>, io |-> NoIO]

(* everything but the configuration: nothing has run yet *)
InitCommon ==
  /\ dev = [x \in 0..(blkdev.logical_block_count - 1) |-> OrigData(x)]
  /\ outfile = [written |-> FALSE, list |-> << >>]
  /\ err = [kind |-> "none", code |-> 0]
  /\ badblocks = << >>
  /\ start_block = 0
  /\ end_block = 0
  /\ stepping = 0
  /\ rv = 0
  /\ i = 0
  /\ pat = 0
  /\ buf = << >>
  /\ signaled = FALSE
  /\ faults = 0
  /\ snaps = 0
  /\ lastio = NoIO
  /\ last = NoBatch
  /\ obs = NoObs
  /\ hist = [loaded |-> << >>, batches |-> << >>]

(* A burnin run with validated Options (Options::validate: start < end;
   process_arg: retries >= 1) on a device of 1..MaxBlocks blocks whose
   preferred batch is MaxStepping blocks.  The end block is inside the first
   batch or past the device end (the default); the input file lists the first
   MaxLoaded blocks or nothing. *)
Init ==
  /\ plan = "any"
  /\ \E count \in 1..MaxBlocks :
       blkdev = [logical_block_count |-> count, block_stepping |-> MaxStepping]
  /\ \E ostep \in 0..MaxStepping, m \in {0, MaxErrors}, s \in 0..1,
        e \in {1, blkdev.logical_block_count + 1}, ok \in BOOLEAN :
       /\ s < e
       /\ opts = [stepping |-> ostep, retries |-> MaxRetries, max_errors |-> m,
                  start_block |-> s, end_block |-> e, captcha_ok |-> ok]
  /\ \E len \in {0, MaxLoaded} : infile = [k \in 1..len |-> k - 1]
  /\ pc = "open"
  /\ block = 0
  /\ stepping_ = 0
  /\ InitCommon

----------------------------------------------------------------------------
(* burnin(const Options&): open, captcha, load *)

Open ==
  /\ pc = "open"
  /\ \E ok \in BOOLEAN :
       IF ok
         THEN /\ pc' = "captcha"
              /\ err' = err
         ELSE /\ pc' = "returned"
              /\ err' = [kind |-> "opening_device", code |-> 1]
  /\ UNCHANGED << opts, blkdev, dev, infile, outfile, badblocks, start_block,
                  end_block, stepping_, block, stepping, rv, i, pat, buf, signaled,
                  plan, faults, snaps, lastio, last, obs, hist >>

Captcha ==
  /\ pc = "captcha"
  /\ IF CaptchaMatches(opts)
       THEN /\ pc' = "load"
            /\ err' = err
       ELSE /\ pc' = "returned"
            /\ err' = [kind |-> "captcha", code |-> 0]
  /\ UNCHANGED << opts, blkdev, dev, infile, outfile, badblocks, start_block,
                  end_block, stepping_, block, stepping, rv, i, pat, buf, signaled,
                  plan, faults, snaps, lastio, last, obs, hist >>

Load ==
  /\ pc = "load"
  /\ \E ok \in BOOLEAN : badblocks' = IF ok THEN infile ELSE << >>
  /\ hist' = [hist EXCEPT !.loaded = badblocks']
  /\ pc' = "burnin"
  /\ UNCHANGED << opts, blkdev, dev, infile, outfile, err, start_block,
                  end_block, stepping_, block, stepping, rv, i, pat, buf, signaled,
                  plan, faults, snaps, lastio, last, obs >>

(* burnin(blkdev,opts,badblocks) up to the loop of burnin_loop: the run
   parameters, the buffer, the first progress snapshot, block = start_block *)
BurninEntry ==
  /\ UNCHANGED hist
  /\ pc = "burnin"
  /\ stepping_' = EffectiveStepping(opts, blkdev)
  /\ start_block' = ComputeStart(opts, blkdev)
  /\ end_block' = ComputeEnd(opts, blkdev)
  /\ \E v \in UninitBytes : buf' = Fill(stepping_', v)
  /\ rv' \in UninitInts
  /\ snaps' = 1
  /\ block' = start_block'
  /\ pc' = "loop"
  /\ UNCHANGED << opts, blkdev, dev, infile, outfile, err, badblocks, stepping,
                  i, pat, signaled, plan, faults, lastio, last, obs >>

----------------------------------------------------------------------------
(* burnin_loop *)

(* the exit-signal check left out *)
ExitIgnored(sig) == FALSE

(* line 145: if(signals::signaled_to_exit()) break; *)
ExitRequested(sig) == sig

(* a device call is about to be issued: the process is in one of the four
   retry loops and the loop's guard holds *)
IOPending ==
  /\ pc \in {"preserve", "wrc_write", "wrc_read", "restore"}
  /\ RetryGuard(i, opts.retries, rv)

(* The head of one iteration: the while condition, the exit-signal check, the
   SIGALRM tick (signals::dec, an input), trim_stepping, and the entry into
   burn_block (rv = -1, i = 0).  A pending signal clears nothing: break. *)
LoopHead ==
  /\ UNCHANGED hist
  /\ pc = "loop"
  /\ \E tick \in BOOLEAN :
       LET inrange == block < end_block
           run == inrange /\ ~ExitRequested(signaled)
           n == trim_stepping(blkdev.logical_block_count, block, stepping_)
       IN /\ (tick => run)
          /\ pc' = IF run THEN "preserve" ELSE "final"
          /\ obs' = IF inrange /\ signaled /\ ~obs.seen
                      THEN [seen |-> TRUE, block |-> block, badblocks |-> badblocks,
                            io |-> lastio]
                      ELSE obs
          /\ snaps' = IF run /\ tick THEN 1 ELSE 0
          /\ stepping' = IF run THEN n ELSE stepping
          /\ rv' = IF run THEN -1 ELSE rv
          /\ i' = IF run THEN 0 ELSE i
          /\ last' = IF run
                       THEN [NoBatch EXCEPT !.valid = TRUE, !.block = block, !.n = n,
                                            !.bbpre = badblocks,
                                            !.pre = Contents(dev, block, n)]
                       ELSE last
  /\ UNCHANGED << opts, blkdev, dev, infile, outfile, err, badblocks, start_block,
                  end_block, stepping_, block, pat, buf, signaled, plan, faults,
                  lastio >>

----------------------------------------------------------------------------
(* burn_block and write_read_compare.  A device call that fails leaves the
   buffer (read) or the device (write) as it was. *)

IsFault(r, g) == IF r < 0 \/ g THEN 1 ELSE 0

(* lines 96-98: one attempt of the preserve read *)
PreserveRead ==
  /\ UNCHANGED hist
  /\ pc = "preserve"
  /\ RetryGuard(i, opts.retries, rv)
  /\ \E r \in Responses("preserve", block), g \in Garbles :
       LET count == BurnCount(stepping_, stepping)
           data == IF g THEN DevReadGarbled(dev, blkdev.logical_block_count, block, count, buf)
                        ELSE DevRead(dev, blkdev.logical_block_count, block, count, buf)
       IN /\ (g => r >= 0)
          /\ rv' = r
          /\ i' = i + 1
          /\ buf' = IF r >= 0 THEN data ELSE buf
          /\ faults' = faults + IsFault(r, g)
          /\ lastio' = [op |-> "read", block |-> block, count |-> count, rv |-> r]
          /\ last' = [last EXCEPT !.clean = @ /\ r >= 0 /\ ~g,
                                  !.pres_ok = (r >= 0),
                                  !.captured = IF r >= 0 THEN data ELSE @]
  /\ UNCHANGED << pc, opts, blkdev, dev, infile, outfile, err, badblocks, start_block,
                  end_block, stepping_, block, stepping, pat, signaled, plan,
                  snaps, obs >>

(* lines 100-103: after the preserve loop: memset on failure, first pattern *)
PreserveDone ==
  /\ UNCHANGED hist
  /\ pc = "preserve"
  /\ ~RetryGuard(i, opts.retries, rv)
  /\ buf' = IF rv < 0 THEN Fill(Len(buf), 0) ELSE buf
  /\ pat' = 0
  /\ pc' = "wrc_write"
  /\ rv' = -1
  /\ i' = 0
  /\ UNCHANGED << opts, blkdev, dev, infile, outfile, err, badblocks, start_block,
                  end_block, stepping_, block, stepping, signaled, plan, faults,
                  snaps, lastio, last, obs >>

(* write_read_compare lines 63-65: one attempt of the pattern write *)
PatternWrite ==
  /\ UNCHANGED hist
  /\ pc = "wrc_write"
  /\ RetryGuard(i, opts.retries, rv)
  /\ \E r \in Responses("pattern_write", block) :
       LET count == BurnCount(stepping_, stepping)
       IN /\ rv' = r
          /\ i' = i + 1
          /\ dev' = IF r >= 0
                      THEN DevWrite(dev, block, count, Fill(Len(buf), Patterns[pat + 1]))
                      ELSE dev
          /\ faults' = faults + IsFault(r, FALSE)
          /\ lastio' = [op |-> "write", block |-> block, count |-> count, rv |-> r]
          /\ last' = [last EXCEPT !.clean = @ /\ r >= 0]
  /\ UNCHANGED << pc, opts, blkdev, infile, outfile, err, badblocks, start_block,
                  end_block, stepping_, block, stepping, pat, buf, signaled, plan,
                  snaps, obs >>

(* burn_block lines 103-106: write_read_compare returned ret: rv = ret, then
   the next pattern, or after the last one rv = -1 and the restore loop *)
NextPattern(ret) ==
  /\ last' = [last EXCEPT !.wrc = ret]
  /\ pat' = pat + 1
  /\ pc' = IF pat + 1 < Len(Patterns) THEN "wrc_write" ELSE "restore"
  /\ rv' = IF pat + 1 < Len(Patterns) THEN -1 ELSE RestoreEntry(ret)
  /\ i' = 0

(* write_read_compare lines 67-70: after the write loop *)
PatternWriteDone ==
  /\ UNCHANGED hist
  /\ pc = "wrc_write"
  /\ ~RetryGuard(i, opts.retries, rv)
  /\ IF rv < 0
       THEN NextPattern(rv)
       ELSE /\ pc' = "wrc_read"
            /\ rv' = -1
            /\ i' = 0
            /\ UNCHANGED << pat, last >>
  /\ UNCHANGED << opts, blkdev, dev, infile, outfile, err, badblocks, start_block,
                  end_block, stepping_, block, stepping, buf, signaled, plan, faults,
                  snaps, lastio, obs >>

(* write_read_compare lines 71-72: one attempt of the pattern read, into buf_ *)
PatternRead ==
  /\ UNCHANGED hist
  /\ pc = "wrc_read"
  /\ RetryGuard(i, opts.retries, rv)
  /\ \E r \in Responses("pattern_read", block), g \in Garbles :
       LET count == BurnCount(stepping_, stepping)
           data == IF g THEN DevReadGarbled(dev, blkdev.logical_block_count, block, count, buf)
                        ELSE DevRead(dev, blkdev.logical_block_count, block, count, buf)
       IN /\ (g => r >= 0)
          /\ rv' = r
          /\ i' = i + 1
          /\ buf' = IF r >= 0 THEN data ELSE buf
          /\ faults' = faults + IsFault(r, g)
          /\ lastio' = [op |-> "read", block |-> block, count |-> count, rv |-> r]
          /\ last' = [last EXCEPT !.clean = @ /\ r >= 0 /\ ~g]
  /\ UNCHANGED << pc, opts, blkdev, dev, infile, outfile, err, badblocks, start_block,
                  end_block, stepping_, block, stepping, pat, signaled, plan,
                  snaps, obs >>

(* write_read_compare lines 74-81: after the read loop: failure or memcmp *)
PatternReadDone ==
  /\ UNCHANGED hist
  /\ pc = "wrc_read"
  /\ ~RetryGuard(i, opts.retries, rv)
  /\ NextPattern(IF rv < 0 THEN rv
                           ELSE Compare(Fill(Len(buf), Patterns[pat + 1]), buf))
  /\ UNCHANGED << opts, blkdev, dev, infile, outfile, err, badblocks, start_block,
                  end_block, stepping_, block, stepping, buf, signaled, plan, faults,
                  snaps, lastio, obs >>

(* burn_block lines 107-108: one attempt of the restore write, from buf_ *)
RestoreWrite ==
  /\ UNCHANGED hist
  /\ pc = "restore"
  /\ RetryGuard(i, opts.retries, rv)
  /\ \E r \in Responses("restore", block) :
       LET count == BurnCount(stepping_, stepping)
       IN /\ rv' = r
          /\ i' = i + 1
          /\ dev' = IF r >= 0 THEN DevWrite(dev, block, count, buf) ELSE dev
          /\ faults' = faults + IsFault(r, FALSE)
          /\ lastio' = [op |-> "write", block |-> block, count |-> count, rv |-> r]
          /\ last' = [last EXCEPT !.clean = @ /\ r >= 0,
                                  !.restored = buf,
                                  !.restores = @ + 1]
  /\ UNCHANGED << pc, opts, blkdev, infile, outfile, err, badblocks, start_block,
                  end_block, stepping_, block, stepping, pat, buf, signaled, plan,
                  snaps, obs >>

(* burn_block line 110 and burnin_loop lines 159-173: burn_block returns rv
   (its locals i and the pattern index end with it); the cursor advances;
   success continues, -EINVAL breaks, any other failure prints a snapshot,
   appends the batch and checks the limit *)
BurnReturn ==
  /\ pc = "restore"
  /\ ~RetryGuard(i, opts.retries, rv)
  /\ block' = block + stepping
  /\ hist' = [hist EXCEPT !.batches = Append(@, [block |-> block, n |-> stepping,
                                                   rv |-> rv])]
  /\ IF Classify(rv) = "good"
       THEN /\ pc' = "loop"
            /\ UNCHANGED << badblocks, snaps, last >>
       ELSE IF Classify(rv) = "fatal"
         THEN /\ pc' = "final"
              /\ UNCHANGED << badblocks, snaps, last >>
         ELSE /\ snaps' = snaps + 1
              /\ badblocks' = PushBatch(badblocks, block', stepping)
              /\ last' = [last EXCEPT !.bad = TRUE]
              /\ pc' = IF LimitExceeded(badblocks', opts.max_errors)
                         THEN "final" ELSE "loop"
  /\ i' = 0
  /\ pat' = 0
  /\ UNCHANGED << opts, blkdev, dev, infile, outfile, err, start_block,
                  end_block, stepping_, stepping, rv, buf, signaled, plan,
                  faults, lastio, obs >>

(* burnin_loop lines 176-180 and burnin lines 240-247: the final snapshot,
   return rv, delete[] buf, and the AppError made of it *)
FinalPrint ==
  /\ UNCHANGED hist
  /\ pc = "final"
  /\ snaps' = snaps + 1
  /\ err' = RunResult(rv)
  /\ pc' = "save"
  /\ UNCHANGED << opts, blkdev, dev, infile, outfile, badblocks, start_block,
                  end_block, stepping_, block, stepping, rv, i, pat, buf, signaled,
                  plan, faults, lastio, last, obs >>

----------------------------------------------------------------------------
(* burnin(const Options&): save, close *)

(* lines 305-309: BadBlockFile::write and its effect on err *)
Save ==
  /\ pc = "save"
  /\ \E ok \in BOOLEAN :
       /\ outfile' = IF ok THEN [written |-> TRUE, list |-> badblocks] ELSE outfile
       /\ err' = AfterSave(err, ok)
  /\ pc' = "close"
  /\ UNCHANGED << opts, blkdev, dev, infile, badblocks, start_block,
                  end_block, stepping_, block, stepping, rv, i, pat, buf, signaled,
                  plan, faults, snaps, lastio, last, obs, hist >>

(* lines 311-315: blkdev.close and its effect on err *)
Close ==
  /\ pc = "close"
  /\ \E ok \in BOOLEAN :
       err' = IF ~ok /\ err.kind = "success"
                THEN [kind |-> "closing_device", code |-> 1]
                ELSE err
  /\ pc' = "returned"
  /\ UNCHANGED << opts, blkdev, dev, infile, outfile, badblocks, start_block,
                  end_block, stepping_, block, stepping, rv, i, pat, buf, signaled,
                  plan, faults, snaps, lastio, last, obs, hist >>

(* the environment: an exit signal arrives (signals.hpp sets the flag); once
   the loop is left the flag is never read again *)
SignalExit ==
  /\ UNCHANGED hist
  /\ pc \notin {"final", "save", "close", "returned"}
  /\ ~signaled
  /\ signaled' = TRUE
  /\ UNCHANGED << pc, opts, blkdev, dev, infile, outfile, err, badblocks,
                  start_block, end_block, stepping_, block, stepping, rv, i, pat,
                  buf, plan, faults, snaps, lastio, last, obs >>

----------------------------------------------------------------------------
(* Specifications *)

Run ==
  \/ Open
  \/ Captcha
  \/ Load
  \/ BurninEntry
  \/ LoopHead
  \/ PreserveRead
  \/ PreserveDone
  \/ PatternWrite
  \/ PatternWriteDone
  \/ PatternRead
  \/ PatternReadDone
  \/ RestoreWrite
  \/ BurnReturn
  \/ FinalPrint
  \/ Save
  \/ Close

Next == Run \/ SignalExit

Spec == Init /\ [][Next]_vars

(* Scenario B of the specification: 1000 blocks, stepping 100, retries 2,
   max errors 5, empty bad-block list, no exit signal; the restore write of
   the batch at block 300 always fails and every other device call succeeds *)
InitB ==
  /\ plan = "scenarioB"
  /\ blkdev = [logical_block_count |-> 1000, block_stepping |-> 100]
  /\ opts = [stepping |-> 0, retries |-> 2, max_errors |-> 5,
             start_block |-> 0, end_block |-> 1000, captcha_ok |-> TRUE]
  /\ infile = << >>
  /\ pc = "open"
  /\ block = 0
  /\ stepping_ = 0
  /\ InitCommon

SpecB == InitB /\ [][Run]_vars

(* One batch on a device that may fail or garble every call: a device of
   1..MaxStepping blocks, the end block inside the first batch, no exit signal *)
InitBatch ==
  /\ plan = "hostile"
  /\ \E count \in 1..MaxStepping :
       blkdev = [logical_block_count |-> count, block_stepping |-> MaxStepping]
  /\ \E m \in {0, MaxErrors} :
       opts = [stepping |-> 0, retries |-> MaxRetries, max_errors |-> m,
               start_block |-> 0, end_block |-> 1, captcha_ok |-> TRUE]
  /\ infile = << >>
  /\ pc = "open"
  /\ block = 0
  /\ stepping_ = 0
  /\ InitCommon

SpecBatch == InitBatch /\ [][Run]_vars

(* trim_stepping on its own: every position, requested stepping and device
   size within the bounds *)
InitTrim ==
  /\ plan = "any"
  /\ \E count \in 0..MaxBlocks :
       blkdev = [logical_block_count |-> count, block_stepping |-> MaxStepping]
  /\ opts = [stepping |-> 0, retries |-> MaxRetries, max_errors |-> 0,
             start_block |-> 0, end_block |-> 1, captcha_ok |-> TRUE]
  /\ infile = << >>
  /\ pc = "trim"
  /\ block \in 0..(MaxBlocks + 2)
  /\ stepping_ \in 0..(MaxStepping + 1)
  /\ InitCommon

TrimStep ==
  /\ UNCHANGED hist
  /\ pc = "trim"
  /\ stepping' = trim_stepping(blkdev.logical_block_count, block, stepping_)
  /\ pc' = "trimmed"
  /\ UNCHANGED << opts, blkdev, dev, infile, outfile, err, badblocks, start_block,
                  end_block, stepping_, block, rv, i, pat, buf, signaled, plan,
                  faults, snaps, lastio, last, obs >>

SpecTrim == InitTrim /\ [][TrimStep]_vars

----------------------------------------------------------------------------
(* Claims *)

(* burn_block has returned for the batch described by last, and the loop has
   dealt with its status *)
BatchDone ==
  /\ last.valid
  /\ pc \in {"loop", "final", "save", "close", "returned"}

(* the addresses b, b+1, ..., b+n-1 *)
Range(b, n) == [k \in 1..n |-> b + (k - 1)]

(* C1: when the preserve read succeeded, every restore write writes the content
   the preserve read captured; and after an invocation in which every device
   call succeeded, the batch holds what it held before the invocation. *)
C1_RestoreWritesCaptured ==
  /\ (last.valid /\ last.pres_ok /\ last.restores > 0) => last.restored = last.captured
  /\ (BatchDone /\ last.clean) => Contents(dev, last.block, last.n) = last.pre

(* C2: when the loop classifies the batch at block b of size n as bad, the
   bad-block list becomes the list held before followed by b, b+1, ..., b+n-1. *)
C2_AppendsTestedBatch ==
  last.bad => badblocks = last.bbpre \o Range(last.block, last.n)

(* C3: every device call covers min(stepping, logical_block_count - p) blocks
   at the cursor p and ends inside the device. *)
C3_IOInsideDevice ==
  lastio.op # "none" =>
    /\ lastio.count = Min(stepping_, blkdev.logical_block_count - lastio.block)
    /\ lastio.block + lastio.count <= blkdev.logical_block_count

(* C4: trim_stepping(N, p, s) is 0 when p >= N and min(s, N - p) otherwise; so
   it is N - p whenever p < N and p + s > N. *)
C4_TrimStepping ==
  pc = "trimmed" =>
    /\ (block >= blkdev.logical_block_count => stepping = 0)
    /\ (block < blkdev.logical_block_count /\ stepping_ <= blkdev.logical_block_count - block
          => stepping = stepping_)
    /\ (block < blkdev.logical_block_count /\ block + stepping_ > blkdev.logical_block_count
          => stepping = blkdev.logical_block_count - block)

C4_Witness ==
  /\ pc = "trimmed"
  /\ block < blkdev.logical_block_count
  /\ block + stepping_ > blkdev.logical_block_count
  /\ stepping = blkdev.logical_block_count - block
  /\ stepping > 0

(* the restore write of the last batch failed on all retries+1 attempts *)
RestoreExhausted == last.restores = opts.retries + 1 /\ rv < 0

(* C5 as stated: a batch is recorded bad if and only if its restore write
   failed on all retries+1 attempts. *)
C5_BadIffRestoreFails ==
  BatchDone => (last.bad <=> RestoreExhausted)

(* C5 amended: a batch is recorded bad if and only if its restore write failed
   on all retries+1 attempts and the status of the last attempt is not -EINVAL;
   the preserve read and the pattern cycles have no part in it. *)
C5_BadIffRestoreFailsNotEinval ==
  BatchDone => (last.bad <=> (RestoreExhausted /\ rv # -EINVAL))

C5_Witness ==
  /\ BatchDone
  /\ last.bad
  /\ RestoreExhausted
  /\ rv = -EIO

(* C6: a batch is recorded bad only when the write-read-compare cycle of the
   last pattern (0xFF) failed for it. *)
C6_BadOnlyIfLastCycleFailed ==
  last.bad => last.wrc < 0

(* C7 as stated: no device call is issued in a state where the bad-block list
   is longer than max_errors. *)
C7_NoIOAboveLimit ==
  IOPending => Len(badblocks) <= opts.max_errors

(* C7 amended: no device call is issued once an append made during the run has
   brought the list above max_errors; a list that is longer than max_errors and
   still sees device calls is the loaded list, nothing appended to it. *)
C7_NoIOAfterAppendAboveLimit ==
  (IOPending /\ Len(badblocks) > opts.max_errors) => badblocks = infile

C7_Witness ==
  /\ pc = "final"
  /\ last.bad
  /\ Len(badblocks) > opts.max_errors
  /\ block < end_block
  /\ badblocks # infile

(* C8: when the loop head finds an exit signal pending, no device call follows,
   the cursor and the bad-block list stay as they were, and exactly one
   snapshot, the final one, is emitted before the return. *)
C8_CancelStopsCleanly ==
  obs.seen =>
    /\ pc \in {"final", "save", "close", "returned"}
    /\ ~IOPending
    /\ lastio = obs.io
    /\ block = obs.block
    /\ badblocks = obs.badblocks
    /\ snaps = IF pc = "final" THEN 0 ELSE 1

C8_Witness ==
  /\ obs.seen
  /\ pc = "returned"
  /\ last.valid
  /\ obs.block < end_block
  /\ snaps = 1

(* C9: a device call that returned -EINVAL is not re-attempted and no device
   call follows it in the run. *)
C9_EinvalEndsIO ==
  IOPending => lastio.rv # -EINVAL

(* C10: in scenario B the loop ends with the cursor at 1000 and the bad-block
   list holding exactly 300..399. *)
C10_ScenarioB ==
  pc = "final" => (block = 1000 /\ badblocks = Range(300, 100))

----------------------------------------------------------------------------
(* Termination of the run, by a variant *)

(* steps the retry loop the process is in can still take: the attempts left
   and the exit *)
LoopRank ==
  IF RetryGuard(i, opts.retries, rv) THEN (opts.retries + 1 - i) + 1 ELSE 1

(* the most steps one retry loop takes *)
LoopBound == opts.retries + 2

(* retry loops of burn_block that follow the one the process is in *)
LoopsLeft ==
  CASE pc = "preserve" -> 2 * Len(Patterns) + 1
    [] pc = "wrc_write" -> 2 * (Len(Patterns) - pat)
    [] pc = "wrc_read" -> 2 * (Len(Patterns) - pat) - 1
    [] OTHER -> 0

(* the most steps one iteration of the loop takes *)
BatchBound == (2 * Len(Patterns) + 2) * LoopBound + 2

(* blocks between the cursor and the end block *)
BlocksLeft == IF block < end_block THEN end_block - block ELSE 0

(* an upper bound of the number of steps the run can still take *)
Variant ==
  CASE pc = "returned" -> 0
    [] pc = "close" -> 1
    [] pc = "save" -> 2
    [] pc = "final" -> 3
    [] pc = "loop" -> 4 + BlocksLeft * BatchBound
    [] pc \in {"preserve", "wrc_write", "wrc_read", "restore"} ->
         4 + (BlocksLeft - 1) * BatchBound + LoopsLeft * LoopBound + LoopRank
    [] pc = "burnin" -> 5 + blkdev.logical_block_count * BatchBound
    [] pc = "load" -> 6 + blkdev.logical_block_count * BatchBound
    [] pc = "captcha" -> 7 + blkdev.logical_block_count * BatchBound
    [] pc = "open" -> 8 + blkdev.logical_block_count * BatchBound
    [] OTHER -> 0

(* burn_block returned a non-negative status for every batch tested so far *)
AllRestored == \A k \in DOMAIN hist.batches : hist.batches[k].rv >= 0

(* the batches tested are those of [start_block, end_block), in order, each
   once: batch k starts (k-1) steppings after start_block and is cut at the
   end block *)
RangeTestedOnce ==
  /\ Len(hist.batches) >= 1
  /\ \A k \in DOMAIN hist.batches :
       /\ hist.batches[k].block = start_block + (k - 1) * stepping_
       /\ hist.batches[k].block < end_block
       /\ hist.batches[k].n = Min(stepping_, end_block - hist.batches[k].block)
  /\ hist.batches[Len(hist.batches)].block + hist.batches[Len(hist.batches)].n
       = end_block

(* the loop is left, no exit signal was raised and no batch failed its restore *)
C11_Completed ==
  /\ pc = "final"
  /\ ~signaled
  /\ start_block < end_block
  /\ AllRestored

(* C11: the run terminates under any device outcomes (every step of the program
   lowers a natural-number variant, so only finitely many follow); and a loop
   that ends with no exit signal raised and every batch restored ends with the
   cursor at end_block, every batch of the range tested once and the bad-block
   list as it was loaded. *)
C11_TerminatesAndCompletes ==
  /\ [](Variant >= 0)
  /\ [][signaled' = signaled => Variant' < Variant]_vars
  /\ [](C11_Completed =>
          /\ block = end_block
          /\ RangeTestedOnce
          /\ badblocks = hist.loaded)

C11_Witness ==
  /\ C11_Completed
  /\ Len(hist.batches) >= 2
  /\ hist.batches[Len(hist.batches)].n < stepping_
  /\ faults > 0
  /\ hist.loaded # << >>
  /\ block = end_block
  /\ badblocks = hist.loaded

(* C12: the limit is checked right after an append: once the append of a bad
   batch has brought the list above max_errors the loop is left, with no
   further batch tested, no device call, no further append, and the cursor just
   behind the bad batch, which is before end_block unless that batch was the
   last of the range. *)
C12_LimitCheckedAfterAppend ==
  (last.bad /\ Len(badblocks) > opts.max_errors) =>
    /\ pc \in {"final", "save", "close", "returned"}
    /\ ~IOPending
    /\ hist.batches[Len(hist.batches)].block = last.block
    /\ Len(badblocks) = Len(last.bbpre) + last.n
    /\ block = last.block + last.n
    /\ (last.block + last.n < end_block => block < end_block)

C12_Witness ==
  /\ pc = "returned"
  /\ last.bad
  /\ opts.max_errors > 0
  /\ Len(last.bbpre) <= opts.max_errors
  /\ Len(badblocks) > opts.max_errors
  /\ block < end_block

(* C13: an invocation of burn_block ends with a restore write: when it
   returns, at least one restore write was attempted, whatever the preserve
   read and the pattern cycles returned, and the last device call is a restore
   attempt on the batch, the one whose status burn_block returns. *)
C13_EndsWithRestore ==
  /\ (pc = "restore" /\ ~RetryGuard(i, opts.retries, rv)) =>
       /\ i >= 1
       /\ last.restores = i
       /\ lastio.op = "write"
       /\ lastio.block = last.block
       /\ lastio.rv = rv
  /\ BatchDone =>
       /\ last.restores >= 1
       /\ lastio.op = "write"
       /\ lastio.block = last.block
       /\ lastio.rv = rv

(* every device call of the invocation failed *)
C13_Witness ==
  /\ BatchDone
  /\ ~last.pres_ok
  /\ last.wrc < 0
  /\ rv < 0
  /\ faults = (opts.retries + 1) * (Len(Patterns) + 2)
  /\ last.restores = opts.retries + 1

(* the run was started and has ended: the save was attempted *)
RunEnded ==
  /\ pc \in {"close", "returned"}
  /\ err.kind \notin {"opening_device", "captcha"}

(* C14 as stated: when the run succeeded and the save fails, the result is
   still the run's successful result (up to a failure of the close that
   follows). *)
C14_SaveFailureKeepsSuccess ==
  (RunEnded /\ ~outfile.written /\ RunResult(rv).kind = "success")
    => err.kind \in {"success", "closing_device"}

(* C14 amended: the list is saved after every run that was started, and a save
   that succeeds stores the final list; a failed save replaces a successful
   run result by the writing-badblocks-file error and leaves the error of a
   failed run as the result. *)
C14_SaveFailureReplacesSuccess ==
  RunEnded =>
    /\ outfile.written => outfile.list = badblocks
    /\ (~outfile.written /\ RunResult(rv).kind = "success")
         => err.kind = "writing_badblocks_file"
    /\ (outfile.written /\ RunResult(rv).kind = "success")
         => err.kind \in (IF pc = "close" THEN {"success"}
                                          ELSE {"success", "closing_device"})
    /\ RunResult(rv).kind = "runtime" => err = RunResult(rv)

C14_Witness ==
  /\ pc = "returned"
  /\ Len(hist.batches) >= 1
  /\ AllRestored
  /\ ~outfile.written
  /\ err.kind = "writing_badblocks_file"

(* C15: when the caller's captcha does not match, the run returns the captcha
   error (or the open error before it) with no device call issued, the device
   untouched, the bad-block list not loaded and the output file not written. *)
C15_CaptchaMismatchAborts ==
  ~opts.captcha_ok =>
    /\ pc \in {"open", "captcha", "returned"}
    /\ (pc = "returned" => err.kind \in {"opening_device", "captcha"})
    /\ lastio = NoIO
    /\ dev = [x \in 0..(blkdev.logical_block_count - 1) |-> OrigData(x)]
    /\ badblocks = << >>
    /\ hist.loaded = << >>
    /\ ~outfile.written

C15_Witness ==
  /\ pc = "returned"
  /\ err.kind = "captcha"
  /\ infile # << >>
  /\ ~opts.captcha_ok

(* a is an initial part of b *)
IsPrefix(a, b) == Len(a) <= Len(b) /\ SubSeq(b, 1, Len(a)) = a

(* C16: every step leaves the bad-block list held before it, loaded entries
   included, as a prefix of the list held after it. *)
C16_ListOnlyGrowsAtEnd ==
  [][IsPrefix(badblocks, badblocks')]_vars

C16_Witness ==
  /\ last.bad
  /\ hist.loaded # << >>
  /\ last.bbpre = hist.loaded
  /\ Len(badblocks) > Len(last.bbpre)
  /\ IsPrefix(last.bbpre, badblocks)

(* C17: write_read_compare with retry bound R.  A write attempt is made only
   while fewer than R+1 were made and all of them failed; the read phase is
   entered after a write that succeeded; when the R+1 writes all failed the
   last status is returned with no read issued; the read phase attempts
   likewise, and returns the last status when its R+1 reads all failed; after
   a read that succeeded the return is 0 when the buffer read equals the
   pattern and -EIO when it differs. *)
C17_WriteReadCompare ==
  [][ /\ (pc = "wrc_write" /\ pc' = "wrc_write" /\ i' # i /\ pat' = pat) =>
           /\ i' = i + 1
           /\ i <= opts.retries
           /\ (i >= 1 => rv < 0)
           /\ lastio'.op = "write"
      /\ (pc = "wrc_write" /\ pc' = "wrc_read") =>
           /\ rv >= 0
           /\ i >= 1
           /\ i <= opts.retries + 1
           /\ pat' = pat
      /\ (pc = "wrc_write" /\ pat' = pat + 1) =>
           /\ rv < 0
           /\ i = opts.retries + 1
           /\ last'.wrc = rv
           /\ lastio' = lastio
           /\ lastio.op = "write"
      /\ (pc = "wrc_read" /\ pc' = "wrc_read" /\ i' # i) =>
           /\ i' = i + 1
           /\ i <= opts.retries
           /\ (i >= 1 => rv < 0)
           /\ lastio'.op = "read"
      /\ (pc = "wrc_read" /\ pat' = pat + 1) =>
           IF rv < 0
             THEN /\ i = opts.retries + 1
                  /\ last'.wrc = rv
             ELSE /\ i >= 1
                  /\ last'.wrc = IF buf = Fill(Len(buf), Patterns[pat + 1])
                                   THEN 0 ELSE -EIO
    ]_vars

(* the first pattern's R+1 writes all failed: its status is returned, no read
   was issued, and the second pattern is about to be written *)
C17_Witness ==
  /\ pc = "wrc_write"
  /\ pat = 1
  /\ i = 0
  /\ last.wrc < 0
  /\ lastio.op = "write"
  /\ lastio.rv = last.wrc
  /\ faults >= opts.retries + 1

(* C18: when burn_block returns -EINVAL for a batch, the cursor is advanced by
   the batch size and the loop is left: that batch is the last one tested,
   nothing is appended to the list, and the run's result is the runtime error
   carrying EINVAL. *)
C18_EinvalStopsLoop ==
  (BatchDone /\ rv = -EINVAL) =>
    /\ pc \in {"final", "save", "close", "returned"}
    /\ hist.batches[Len(hist.batches)] =
         [block |-> last.block, n |-> last.n, rv |-> -EINVAL]
    /\ block = last.block + last.n
    /\ ~last.bad
    /\ badblocks = last.bbpre
    /\ (pc # "final" => err = [kind |-> "runtime", code |-> EINVAL])

C18_Witness ==
  /\ pc = "returned"
  /\ last.valid
  /\ rv = -EINVAL
  /\ block = last.block + last.n
  /\ block < end_block
  /\ err = [kind |-> "runtime", code |-> EINVAL]

(* C19: with start_block < end_block, start_block <= cursor <= end_block <=
   logical_block_count in every state; while a batch is tested the cursor is
   below end_block and the batch size is at least 1; and every step that moves
   the cursor moves it up. *)
C19_CursorInvariant ==
  /\ [](start_block < end_block =>
          /\ start_block <= block
          /\ block <= end_block
          /\ end_block <= blkdev.logical_block_count
          /\ (pc \in {"preserve", "wrc_write", "wrc_read", "restore"} =>
                /\ block < end_block
                /\ stepping >= 1
                /\ last.n = stepping))
  /\ [][(pc = "restore" /\ pc' # "restore") => block' > block]_vars
  /\ [][(pc \in {"loop", "preserve", "wrc_write", "wrc_read", "final"})
           => block' = block]_vars

(* the cursor has reached the end of the device through a batch cut short *)
C19_Witness ==
  /\ pc = "loop"
  /\ start_block < end_block
  /\ Len(hist.batches) >= 2
  /\ hist.batches[Len(hist.batches)].n < stepping_
  /\ hist.batches[Len(hist.batches)].n >= 1
  /\ block = end_block
  /\ end_block = blkdev.logical_block_count

(* the status burn_block returned for the last batch tested *)
LastStatus == hist.batches[Len(hist.batches)].rv

(* C20: when at least one batch was tested, the status burnin_loop returns is
   the status of the last batch tested, whatever the earlier ones were: the
   run's result is made of that status alone, and when it is an error it is
   what burnin returns. *)
C20_ResultIsLastBatchStatus ==
  (Len(hist.batches) >= 1 /\ pc \in {"final", "save", "close", "returned"}) =>
    /\ rv = LastStatus
    /\ (pc = "save" => err = RunResult(LastStatus))
    /\ (pc \in {"close", "returned"} /\ LastStatus < 0 => err = RunResult(LastStatus))
    /\ (pc \in {"close", "returned"} /\ LastStatus >= 0 => err.kind # "runtime")

(* an earlier batch was recorded bad, the last one restored: success *)
C20_Witness ==
  /\ pc = "save"
  /\ Len(hist.batches) >= 2
  /\ hist.batches[1].rv < 0
  /\ Len(badblocks) > Len(hist.loaded)
  /\ LastStatus >= 0
  /\ err.kind = "success"

====
